---- MODULE Spec2Model ----
(***************************************************************************)
(* Exact ESOP synthesis (src/src/esop/exact_synthesis.cpp):                *)
(* exact_synthesis_from_binary_string builds, for k = 1, 2, ..., a         *)
(* CNF+XOR constraint set over p/q/z variables, solves it, extracts the    *)
(* cubes from the model and, in enumeration mode, blocks every term-slot   *)
(* permutation of the model before solving again.                          *)
(***************************************************************************)
EXTENDS Integers, Sequences, FiniteSets, TLC

(* ------------------------------ bounds --------------------------------- *)
\* largest value of the configuration option maximum_cubes that is explored
MaxMaximumCubes == 2
\* largest number of don't-care rows in an explored table
MaxDontCares == 1
\* explored numbers of input variables (table lengths 1, 2 and 4)
VarCounts == {0, 1, 2}
\* '-' stands for any character other than '0' and '1'
Symbols == {"0", "1", "-"}

(* ------------------------------ helpers -------------------------------- *)
Abs(x) == IF x < 0 THEN -x ELSE x
Range(s) == {s[i] : i \in DOMAIN s}
\* (x >> l) & 1
Bit(x, l) == (x \div (2^l)) % 2
SetBit(x, l) == IF Bit(x, l) = 1 THEN x ELSE x + 2^l
ClearBit(x, l) == IF Bit(x, l) = 1 THEN x - 2^l ELSE x

\* const int num_vars = log2( binary.size() )
Log2(size) == CHOOSE n \in 0..32 : 2^n <= size /\ size < 2^(n+1)
NumVars(b) == Log2(Cardinality(DOMAIN b))

\* the tables the model explores: length 2^n, at most MaxDontCares don't-cares
Tables ==
  UNION {{b \in [0..(2^n - 1) -> Symbols] :
            Cardinality({i \in DOMAIN b : b[i] = "-"}) <= MaxDontCares} : n \in VarCounts}

(* ------------------------------ variable ids --------------------------- *)
\* 1 + num_vars*j + l
p_id(n, k, j, l) == 1 + n*j + l
\* 1 + num_vars*k + num_vars*j + l
q_id(n, k, j, l) == 1 + n*k + n*j + l
\* int sid = 1 + 2*num_vars*k
sid_init(n, k) == 1 + 2*n*k
\* the right-hand side of the assertion at the allocation of z_vars[ j ]
sid_expected(n, k, sc, j) == 1 + 2*n*k + sc*k + j
\* z_vars[ j ] = sid++, for j = 0..k-1, starting from the counter value s
z_alloc(s, k) == [j \in 0..(k-1) |-> s + j]

\* mutant: the counter is advanced for don't-care rows too
next_sample_counter_every_row(sc, defined) == sc + 1
\* sample_counter after a row: only a defined row counts
next_sample_counter(sc, defined) == IF defined THEN sc + 1 ELSE sc

(* ------------------------------ encoder -------------------------------- *)
\* minterm.get_bit( l )
get_bit(minterm, l) == Bit(minterm, l) = 1

\* z_j -> the literal of term j on variable l is compatible with the row
positive_clauses(n, k, minterm, z_vars) ==
  {{-z_vars[j], IF get_bit(minterm, l) THEN -q_id(n, k, j, l) ELSE -p_id(n, k, j, l)} :
     j \in 0..(k-1), l \in 0..(n-1)}

\* term j compatible with the row -> z_j
negative_clauses(n, k, minterm, z_vars) ==
  {{z_vars[j]} \cup
     {IF get_bit(minterm, l) THEN q_id(n, k, j, l) ELSE p_id(n, k, j, l) : l \in 0..(n-1)} :
     j \in 0..(k-1)}

\* constraints.add_xor_clause( z_vars, binary[ minterm._bits ] == '1' )
xor_clause(z_vars, symbol) == [vars |-> z_vars, value |-> (symbol = "1")]

(* ------------------------------ solver --------------------------------- *)
\* truth of a literal under a valuation of variable ids
LitTrue(val, lit) == IF lit > 0 THEN val[lit] ELSE ~val[-lit]
ClauseTrue(val, c) == \E lit \in c : LitTrue(val, lit)
XorTrue(val, x) ==
  (Cardinality({j \in DOMAIN x.vars : val[x.vars[j]]}) % 2 = 1) = x.value

\* a valuation of the p/q ids extended by values zb for the ids of zv
Extend(a, zv, zb) ==
  [id \in (DOMAIN a) \cup Range(zv) |->
     IF id \in DOMAIN a THEN a[id] ELSE zb[CHOOSE j \in DOMAIN zv : zv[j] = id]]

\* the p/q assignments that extend to a satisfying assignment of the set:
\* the z variables of one row occur only in that row's clauses and XOR
SatAssignments(n, k, cls, xors) ==
  LET pq == 1..(2*n*k)
      plain == {c \in cls : \A lit \in c : Abs(lit) \in pq}
      rowcls == [r \in DOMAIN xors |->
                   {c \in cls : \E lit \in c : Abs(lit) \in Range(xors[r].vars)}]
  IN {a \in [pq -> BOOLEAN] :
        /\ \A c \in plain : ClauseTrue(a, c)
        /\ \A r \in DOMAIN xors :
             \E zb \in [DOMAIN xors[r].vars -> BOOLEAN] :
               LET val == Extend(a, xors[r].vars, zb)
               IN /\ \A c \in rowcls[r] : ClauseTrue(val, c)
                  /\ XorTrue(val, xors[r])}

\* result.model: position i holds the value of the variable with id i + 1
ModelOf(a) == [i \in 0..(Cardinality(DOMAIN a) - 1) |-> a[i + 1]]

\* the symmetry breaker: keeps at least one assignment of every class of
\* term-slot permutations ("order": the pattern of slot 0 is not above slot 1)
SlotCode(a, n, k, j) ==
  LET RECURSIVE code(_)
      code(l) == IF l >= n THEN 0
                 ELSE (IF a[p_id(n, k, j, l)] THEN 1 ELSE 0)
                      + (IF a[q_id(n, k, j, l)] THEN 2 ELSE 0) + 4 * code(l + 1)
  IN code(0)
SymmetryModes == {"none", "order"}
cnf_symmetry_breaking(S, n, k, mode) ==
  IF mode = "order" /\ k >= 2
  THEN {a \in S : SlotCode(a, n, k, 0) <= SlotCode(a, n, k, 1)}
  ELSE S

(* ------------------------------ extraction ----------------------------- *)
\* the positions of result.model that extraction and blocking read
p_index(n, k, j, l) == j*n + l

\* mutant: the q block read without its offset num_vars*k
q_index_no_offset(n, k, j, l) == j*n + l
q_index(n, k, j, l) == n*k + j*n + l
\* result.model[ j*num_vars + l ] == l_True
p_value(model, n, k, j, l) == model[p_index(n, k, j, l)]
\* result.model[ num_vars*k + j*num_vars + l ] == l_True
q_value(model, n, k, j, l) == model[q_index(n, k, j, l)]

\* kitty::cube: default-constructed, then add_literal( l, polarity )
empty_cube == [bits |-> 0, mask |-> 0]
add_literal(c, l, polarity) ==
  [bits |-> IF polarity THEN SetBit(c.bits, l) ELSE ClearBit(c.bits, l),
   mask |-> SetBit(c.mask, l)]

\* mutant: the polarities of the two add_literal calls exchanged
extract_cube_swapped(model, n, k, j) ==
  LET RECURSIVE step(_, _)
      step(l, c) ==
        IF l >= n THEN c
        ELSE LET p == p_value(model, n, k, j, l)
                 q == q_value(model, n, k, j, l)
             IN step(l + 1, IF p /\ q THEN c
                            ELSE IF p THEN add_literal(c, l, FALSE)
                            ELSE IF q THEN add_literal(c, l, TRUE)
                            ELSE c)
  IN step(0, empty_cube)
\* the inner loop over l for term j
extract_cube(model, n, k, j) ==
  LET RECURSIVE step(_, _)
      step(l, c) ==
        IF l >= n THEN c
        ELSE LET p == p_value(model, n, k, j, l)
                 q == q_value(model, n, k, j, l)
             IN step(l + 1, IF p /\ q THEN c
                            ELSE IF p THEN add_literal(c, l, TRUE)
                            ELSE IF q THEN add_literal(c, l, FALSE)
                            ELSE c)
  IN step(0, empty_cube)

cancel_cube(model, n, k, j) ==
  \E l \in 0..(n-1) : p_value(model, n, k, j, l) /\ q_value(model, n, k, j, l)

\* the loop over j: void terms are skipped, the others pushed in slot order
extract_esop(model, n, k) ==
  LET RECURSIVE terms(_)
      terms(j) == IF j >= k THEN <<>>
                  ELSE (IF cancel_cube(model, n, k, j) THEN <<>>
                        ELSE <<extract_cube(model, n, k, j)>>) \o terms(j + 1)
  IN terms(0)

\* the weight cube_weight_compare orders by: one ternary digit per variable
cube_weight(c, n) ==
  LET RECURSIVE w(_)
      w(l) == IF l >= n THEN 0
              ELSE (IF Bit(c.mask, l) = 0 THEN 0 ELSE IF Bit(c.bits, l) = 1 THEN 2 ELSE 1)
                   + 3 * w(l + 1)
  IN w(0)

\* std::sort( esop.begin(), esop.end(), cube_weight_compare( num_vars ) )
sort_esop(e, n) ==
  LET RECURSIVE ins(_, _)
      ins(s, c) == IF s = <<>> THEN <<c>>
                   ELSE IF cube_weight(c, n) < cube_weight(Head(s), n) THEN <<c>> \o s
                   ELSE <<Head(s)>> \o ins(Tail(s), c)
      RECURSIVE srt(_)
      srt(s) == IF s = <<>> THEN <<>> ELSE ins(srt(Tail(s)), Head(s))
  IN srt(e)

(* ------------------------------ blocking ------------------------------- *)

\* mutant: the loop body runs once, for the initial order 0,1,..,k-1 only
permutations_first_only(k) == {[i \in 0..(k-1) |-> i]}
\* the orders of vs visited by do ... while ( std::next_permutation ), from 0,1,..,k-1
permutations(k) ==
  {vs \in [0..(k-1) -> 0..(k-1)] : \A i, j \in 0..(k-1) : vs[i] = vs[j] => i = j}

\* mutant: the literals of the clause carry the model's signs instead of their negations
blocking_clause_unnegated(model, n, k, vs) ==
  UNION {{IF p_value(model, n, k, j, l) THEN p_id(n, k, vs[j], l) ELSE -p_id(n, k, vs[j], l),
          IF q_value(model, n, k, j, l) THEN q_id(n, k, vs[j], l) ELSE -q_id(n, k, vs[j], l)} :
           j \in 0..(k-1), l \in 0..(n-1)}
\* the clause for one order vs: slot vs[j] must differ somewhere from the model's slot j
blocking_clause(model, n, k, vs) ==
  UNION {{IF p_value(model, n, k, j, l) THEN -p_id(n, k, vs[j], l) ELSE p_id(n, k, vs[j], l),
          IF q_value(model, n, k, j, l) THEN -q_id(n, k, vs[j], l) ELSE q_id(n, k, vs[j], l)} :
           j \in 0..(k-1), l \in 0..(n-1)}

blocking_clauses(model, n, k) ==
  {blocking_clause(model, n, k, vs) : vs \in permutations(k)}

\* mutant: k < max_number_of_cubes
loop_condition_strict(kk, max) == kk < max
\* k <= max_number_of_cubes
loop_condition(kk, max) == kk <= max

\* mutant: the break is missing
stop_after_k_never(es) == FALSE
\* if ( esops.size() > 0 ) break;
stop_after_k(es) == Len(es) > 0

(* ------------------------------ state ---------------------------------- *)
VARIABLES
  binary,              \* the truth table, indexed from 0
  max_number_of_cubes, \* config "maximum_cubes"
  one_esop,            \* config "one_esop"
  pc,                  \* "loop" | "encode" | "preprocess" | "solve" | "done"
  k,                   \* the outer loop's term count
  sid,                 \* the variable-id counter
  minterm,             \* minterm._bits
  sample_counter,
  clauses,             \* constraints: the plain clauses
  xor_clauses,         \* constraints: the XOR clauses, one per defined row, in order
  assert_ok,           \* the assertion on sid held at every allocation so far
  sols,                \* the p/q assignments the solver can still return
  model,               \* result.model of the last satisfiable solve
  esop,                \* the ESOP extracted from it (before sorting)
  first_solve,         \* first_solve[k]: the answer of the first solve for k
  esops,
  result               \* the returned sequence

vars == <<binary, max_number_of_cubes, one_esop, pc, k, sid, minterm, sample_counter,
          clauses, xor_clauses, assert_ok, sols, model, esop, first_solve,
          esops, result>>

inputs == <<binary, max_number_of_cubes, one_esop>>

num_vars == NumVars(binary)

Init ==
  /\ binary \in Tables
  /\ max_number_of_cubes \in 1..MaxMaximumCubes
  /\ one_esop \in BOOLEAN
  /\ pc = "loop"
  /\ k = 1
  /\ sid = 0
  /\ minterm = 0
  /\ sample_counter = 0
  /\ clauses = {}
  /\ xor_clauses = <<>>
  /\ assert_ok = TRUE
  /\ sols = {}
  /\ model = <<>>
  /\ esop = <<>>
  /\ first_solve = <<>>
  /\ esops = <<>>
  /\ result = <<>>

\* for ( k ...; k <= max_number_of_cubes; ... ): enter the body with a fresh
\* counter, constraint set and solver
LoopEnter ==
  /\ pc = "loop"
  /\ loop_condition(k, max_number_of_cubes)
  /\ sid' = sid_init(num_vars, k)
  /\ minterm' = 0
  /\ sample_counter' = 0
  /\ clauses' = {}
  /\ xor_clauses' = <<>>
  /\ sols' = {}
  /\ pc' = "encode"
  /\ UNCHANGED <<inputs, k, assert_ok, model, esop, first_solve, esops, result>>

\* the loop condition fails: return esops
LoopExit ==
  /\ pc = "loop"
  /\ ~loop_condition(k, max_number_of_cubes)
  /\ result' = esops
  /\ pc' = "done"
  /\ UNCHANGED <<inputs, k, sid, minterm, sample_counter, clauses, xor_clauses,
                 assert_ok, sols, model, esop, first_solve, esops>>

\* one pass of the do-while body
EncodeRow ==
  /\ pc = "encode"
  /\ LET n == num_vars
         defined == binary[minterm] \in {"0", "1"}
         z_vars == z_alloc(sid, k)
     IN /\ IF defined
           THEN /\ assert_ok' = (assert_ok /\ \A j \in 0..(k-1) :
                                   z_vars[j] = sid_expected(n, k, sample_counter, j))
                /\ sid' = sid + k
                /\ clauses' = clauses \cup positive_clauses(n, k, minterm, z_vars)
                                      \cup negative_clauses(n, k, minterm, z_vars)
                /\ xor_clauses' = Append(xor_clauses, xor_clause(z_vars, binary[minterm]))
           ELSE UNCHANGED <<assert_ok, sid, clauses, xor_clauses>>
        /\ sample_counter' = next_sample_counter(sample_counter, defined)
        /\ minterm' = minterm + 1
        /\ pc' = IF minterm + 1 < 2^n THEN "encode" ELSE "preprocess"
  /\ UNCHANGED <<inputs, k, sols, model, esop, first_solve, esops, result>>

\* gauss_elimination, xor_clauses_to_cnf( sid ), cnf_symmetry_breaking: the
\* solver then works on the resulting set
Preprocess ==
  /\ pc = "preprocess"
  /\ \E mode \in SymmetryModes :
       sols' = cnf_symmetry_breaking(SatAssignments(num_vars, k, clauses, xor_clauses),
                                     num_vars, k, mode)
  /\ pc' = "solve"
  /\ UNCHANGED <<inputs, k, sid, minterm, sample_counter, clauses, xor_clauses,
                 assert_ok, model, esop, first_solve, esops, result>>

\* solver.solve( constraints ) is satisfiable: one pass of the while body
SolveSat ==
  /\ pc = "solve"
  /\ \E a \in sols :
       LET n == num_vars
           m == ModelOf(a)
           e == extract_esop(m, n, k)
           bl == blocking_clauses(m, n, k)
       IN /\ model' = m
          /\ esop' = e
          /\ first_solve' = IF Len(first_solve) < k THEN Append(first_solve, "sat") ELSE first_solve
          /\ IF e = <<>> \/ one_esop
             THEN /\ result' = <<e>>
                  /\ pc' = "done"
                  /\ UNCHANGED <<esops, clauses, sols>>
             ELSE /\ esops' = Append(esops, sort_esop(e, n))
                  /\ clauses' = clauses \cup bl
                  /\ sols' = {b \in sols : \A c \in bl : ClauseTrue(b, c)}
                  /\ pc' = "solve"
                  /\ UNCHANGED result
  /\ UNCHANGED <<inputs, k, sid, minterm, sample_counter, xor_clauses, assert_ok>>

\* solver.solve( constraints ) is unsatisfiable: leave the while loop
SolveUnsat ==
  /\ pc = "solve"
  /\ sols = {}
  /\ first_solve' = IF Len(first_solve) < k THEN Append(first_solve, "unsat") ELSE first_solve
  /\ IF stop_after_k(esops)
     THEN /\ result' = esops
          /\ pc' = "done"
          /\ k' = k
     ELSE /\ k' = k + 1
          /\ pc' = "loop"
          /\ UNCHANGED result
  /\ UNCHANGED <<inputs, sid, minterm, sample_counter, clauses, xor_clauses, assert_ok,
                 sols, model, esop, esops>>

Next == LoopEnter \/ LoopExit \/ EncodeRow \/ Preprocess \/ SolveSat \/ SolveUnsat

Spec == Init /\ [][Next]_vars

(* ------------------------------ ESOP semantics -------------------------- *)
\* a cube covers row i iff every literal it holds matches the row's bit
Covers(c, i, n) == \A l \in 0..(n-1) : Bit(c.mask, l) = 1 => Bit(c.bits, l) = Bit(i, l)
\* the value of an ESOP at row i: the parity of the cubes covering it
EsopValue(e, i, n) == Cardinality({j \in DOMAIN e : Covers(e[j], i, n)}) % 2
\* the ESOP reproduces every '0'/'1' row of the table
Agrees(e, b) ==
  \A i \in DOMAIN b : /\ b[i] = "1" => EsopValue(e, i, NumVars(b)) = 1
                      /\ b[i] = "0" => EsopValue(e, i, NumVars(b)) = 0
\* every cube over n variables
AllCubes(n) ==
  {c \in [bits : 0..(2^n - 1), mask : 0..(2^n - 1)] :
     \A l \in 0..(n-1) : Bit(c.bits, l) = 1 => Bit(c.mask, l) = 1}
\* every ESOP of c cubes that agrees with the table
ValidEsops(b, c) == {e \in [1..c -> AllCubes(NumVars(b))] : Agrees(e, b)}
\* two ESOPs hold the same cubes, in some order
IsPermutationOf(e, f) ==
  /\ Len(e) = Len(f)
  /\ \E pi \in [DOMAIN e -> DOMAIN e] :
       /\ \A i, j \in DOMAIN e : pi[i] = pi[j] => i = j
       /\ \A i \in DOMAIN e : e[i] = f[pi[i]]
\* some term of the model is void
HasVoidTerm(m, n, kk) == \E j \in 0..(kk-1) : cancel_cube(m, n, kk, j)
\* the last solve of the current k was satisfiable, and model holds its answer
HasModel ==
  /\ pc \in {"solve", "done"}
  /\ Len(first_solve) = k
  /\ first_solve[k] = "sat"
AllZero == \A i \in DOMAIN binary : binary[i] = "0"

(* ------------------------------ claims ---------------------------------- *)
\* C1: every ESOP the call collects or returns evaluates, as the XOR of its
\* cubes' coverage, to 1 on every '1' row and to 0 on every '0' row of the
\* table, also when the model it was extracted from holds void terms.
C1_ReproducesTable ==
  /\ \A i \in DOMAIN esops : Agrees(esops[i], binary)
  /\ \A i \in DOMAIN result : Agrees(result[i], binary)
  /\ HasModel => Agrees(esop, binary)

\* C1 witness: enumeration of a table with a '0' row and a don't-care row
\* collected a one-cube ESOP and then returned the empty ESOP of a void model.
C1_Witness ==
  /\ pc = "done"
  /\ ~one_esop
  /\ Len(esops) >= 1
  /\ HasVoidTerm(model, num_vars, k)
  /\ result = <<<<>>>>
  /\ \E i \in DOMAIN binary : binary[i] = "-"

\* C2: every ESOP of a returned result has the fewest cubes of any ESOP that
\* agrees with the table: no ESOP with fewer cubes, the empty one included,
\* agrees with it (stated here for the tables of at least one variable; the
\* claim makes it for every table, mode and model).
C2_MinimumTerm ==
  (pc = "done" /\ num_vars >= 1) =>
    \A i \in DOMAIN result :
      \A c \in 0..(Len(result[i]) - 1) : ValidEsops(binary, c) = {}

\* C5: for an all-'0' table the call returns exactly the one-element sequence
\* holding the empty ESOP, from the first solve at k = 1.
C5_ConstantZero ==
  (pc = "done" /\ AllZero) =>
    /\ result = <<<<>>>>
    /\ k = 1
    /\ first_solve = <<"sat">>

\* the fewest cubes of any ESOP agreeing with the table, among 0..top
MinimalCount(b, top) ==
  CHOOSE c \in 0..top : ValidEsops(b, c) # {} /\ \A d \in 0..(c-1) : ValidEsops(b, d) = {}

\* C3: in enumeration mode a non-empty result holds, up to cube order, every
\* ESOP of the minimal cube count that agrees with the table.
C3_AllMinimalCovers ==
  (pc = "done" /\ ~one_esop /\ result # <<>>) =>
    \A e \in ValidEsops(binary, MinimalCount(binary, Len(result[1]))) :
      \E i \in DOMAIN result : IsPermutationOf(result[i], e)

\* C4: no two collected or returned ESOPs hold the same cubes in a different
\* order, and no assignment the solver can still return decodes to the cubes
\* of an ESOP already collected for this k.
C4_NoPermutedDuplicates ==
  /\ \A i, j \in DOMAIN esops : i # j => ~IsPermutationOf(esops[i], esops[j])
  /\ \A i, j \in DOMAIN result : i # j => ~IsPermutationOf(result[i], result[j])
  /\ pc = "solve" =>
       \A a \in sols : \A i \in DOMAIN esops :
         ~IsPermutationOf(extract_esop(ModelOf(a), num_vars, k), esops[i])

\* C4 witness: two ESOPs of two cubes each were collected and returned.
C4_Witness ==
  /\ pc = "done"
  /\ ~one_esop
  /\ k = 2
  /\ Len(result) >= 2
  /\ \A i \in DOMAIN result : Len(result[i]) = 2

\* C6: all ESOPs of a result have the same number of cubes: the result is
\* empty, or one ESOP, or the ESOPs collected at one k, each of exactly k
\* cubes (no collected ESOP lost a void term).
C6_EqualCubeCount ==
  /\ \A i \in DOMAIN esops : Len(esops[i]) = k
  /\ \A i, j \in DOMAIN result : Len(result[i]) = Len(result[j])
  /\ pc = "done" =>
       \/ result = <<>>
       \/ Len(result) = 1
       \/ result = esops /\ \A i \in DOMAIN result : Len(result[i]) = k

\* C6 witness: a result of several ESOPs, returned although a larger k was allowed.
C6_Witness ==
  /\ pc = "done"
  /\ Len(result) >= 2
  /\ k < max_number_of_cubes

\* C7: the call returns the empty sequence exactly when the first solve of
\* every k in 1..maximum_cubes was unsatisfiable, and no k is attempted after
\* a k whose first solve was satisfiable.
C7_EmptyResult ==
  /\ Len(first_solve) <= max_number_of_cubes
  /\ \A i \in 1..(Len(first_solve) - 1) : first_solve[i] = "unsat"
  /\ pc = "done" =>
       (result = <<>> <=>
          /\ Len(first_solve) = max_number_of_cubes
          /\ \A i \in 1..max_number_of_cubes : first_solve[i] = "unsat")

\* C7 witness: a two-variable table that no single cube covers, with
\* maximum_cubes = 1: the only solve was unsatisfiable and nothing is returned.
C7_Witness ==
  /\ pc = "done"
  /\ result = <<>>
  /\ num_vars = 2
  /\ first_solve = <<"unsat">>

\* the p/q assignment whose model is m
AssignmentOf(m) == [id \in 1..Cardinality(DOMAIN m) |-> m[id - 1]]

\* a measure of the work left: the values of k still to try, then the phase
\* within k, then the rows still to encode or the assignments still to return
RankBase == 4^(num_vars * max_number_of_cubes) + 2^num_vars + 5
Rank ==
  IF pc = "done" THEN 0
  ELSE (max_number_of_cubes + 1 - k) * RankBase
       + CASE pc = "loop" -> RankBase - 1
           [] pc = "encode" -> 4^(num_vars * k) + 2 + (2^num_vars - minterm)
           [] pc = "preprocess" -> 4^(num_vars * k) + 2
           [] pc = "solve" -> Cardinality(sols) + 1
\* the call has returned or one of its steps applies: the loop head (either
\* way), a row still to encode, the preprocessing, or a solve (either answer)
NotStuck ==
  \/ pc = "done"
  \/ pc = "loop"
  \/ pc = "encode" /\ minterm \in DOMAIN binary
  \/ pc = "preprocess" /\ minterm = 2^num_vars
  \/ pc = "solve" /\ IsFiniteSet(sols)

\* C8: an iteration of the solve loop that does not return removes the model
\* just found from what the solver can return and adds nothing to it, so no
\* assignment is returned twice for one k; every step of the call lowers a
\* natural-number measure of the work left and the call is never stuck before
\* it returns, hence the loop for each k ends and the call returns.
C8_Terminates ==
  /\ NotStuck
  /\ [][/\ (pc = "solve" /\ pc' = "solve") =>
             /\ sols' \subseteq sols
             /\ AssignmentOf(model') \in sols
             /\ AssignmentOf(model') \notin sols'
        /\ Rank' < Rank
        /\ Rank' >= 0
        /\ NotStuck']_vars

\* C8 witness: the loop collected three ESOPs for k = 2, then the solver
\* answered unsatisfiable and the call returned them.
C8_Witness ==
  /\ pc = "done"
  /\ k = 2
  /\ sols = {}
  /\ Len(result) >= 3

\* the r-th (from 1) row of the table that is not a don't-care
RowOf(b, r) ==
  CHOOSE i \in DOMAIN b :
    /\ b[i] # "-"
    /\ Cardinality({h \in DOMAIN b : h < i /\ b[h] # "-"}) = r - 1
\* the inverse of extraction: cube j as (1,0) positive, (0,1) negative, (0,0) don't-care
ReEncode(e, n, kk) ==
  [id \in 1..(2*n*kk) |->
     \E j \in 0..(kk-1), l \in 0..(n-1) :
       \/ id = p_id(n, kk, j, l) /\ Bit(e[j+1].mask, l) = 1 /\ Bit(e[j+1].bits, l) = 1
       \/ id = q_id(n, kk, j, l) /\ Bit(e[j+1].mask, l) = 1 /\ Bit(e[j+1].bits, l) = 0]
\* the re-encoded assignment, with z(j) of every row set to 'cube j covers the row'
ReEncodeWithZ(e, b, n, kk, xors) ==
  LET a == ReEncode(e, n, kk)
      zids == UNION {Range(xors[r].vars) : r \in DOMAIN xors}
  IN [id \in (DOMAIN a) \cup zids |->
        IF id \in DOMAIN a THEN a[id]
        ELSE LET r == CHOOSE r \in DOMAIN xors : id \in Range(xors[r].vars)
                 j == CHOOSE j \in DOMAIN xors[r].vars : xors[r].vars[j] = id
             IN Covers(e[j+1], RowOf(b, r), n)]
\* the clauses the encoder emitted: each holds a z literal
EncoderClauses == {c \in clauses : \E lit \in c : Abs(lit) > 2*num_vars*k}

\* C9: extraction reads p(j,l) and q(j,l) at the model positions id - 1 of the
\* ids the encoder uses; and a model without void term, decoded to cubes and
\* re-encoded, gives back the same p/q values, which with z = coverage satisfy
\* every clause and XOR the encoder emitted.
C9_RoundTrip ==
  HasModel =>
    /\ \A j \in 0..(k-1), l \in 0..(num_vars-1) :
         /\ p_index(num_vars, k, j, l) = p_id(num_vars, k, j, l) - 1
         /\ q_index(num_vars, k, j, l) = q_id(num_vars, k, j, l) - 1
    /\ ~HasVoidTerm(model, num_vars, k) =>
         /\ Len(esop) = k
         /\ ModelOf(ReEncode(esop, num_vars, k)) = model
         /\ LET val == ReEncodeWithZ(esop, binary, num_vars, k, xor_clauses)
            IN /\ \A c \in EncoderClauses : ClauseTrue(val, c)
               /\ \A r \in DOMAIN xor_clauses : XorTrue(val, xor_clauses[r])

\* C9 witness: a model of two terms over two variables without void term.
C9_Witness ==
  /\ HasModel
  /\ k = 2
  /\ num_vars = 2
  /\ ~HasVoidTerm(model, num_vars, k)
  /\ Len(esop) = 2
  /\ esop[1] # esop[2]

\* the ids of the p, q and z variables of the current k
PIds == {p_id(num_vars, k, j, l) : j \in 0..(k-1), l \in 0..(num_vars-1)}
QIds == {q_id(num_vars, k, j, l) : j \in 0..(k-1), l \in 0..(num_vars-1)}
ZIds == UNION {Range(xor_clauses[r].vars) : r \in DOMAIN xor_clauses}

\* C10: within one k the p ids are 1..n*k, the q ids n*k+1..2*n*k, the z ids
\* of the r-th defined row (from 0) are 1+2*n*k+r*k+j, don't-care rows consume
\* none, the assertion on sid holds at every allocation, the counter handed
\* on is the first id after the last z, and each k starts from a fresh
\* counter and an empty constraint set.
C10_NoAliasing ==
  /\ assert_ok
  /\ pc \in {"encode", "preprocess", "solve"} =>
       /\ PIds = 1..(num_vars*k)
       /\ QIds = (num_vars*k + 1)..(2*num_vars*k)
       /\ \A r \in DOMAIN xor_clauses : \A j \in 0..(k-1) :
            xor_clauses[r].vars[j] = 1 + 2*num_vars*k + (r-1)*k + j
       /\ Cardinality(ZIds) = k * Len(xor_clauses)
       /\ Len(xor_clauses) = sample_counter
       /\ sample_counter = Cardinality({i \in DOMAIN binary : i < minterm /\ binary[i] # "-"})
       /\ sid = 1 + 2*num_vars*k + sample_counter*k
       /\ \A c \in clauses : \A lit \in c : Abs(lit) \in 1..(sid - 1)
  /\ (pc = "encode" /\ minterm = 0) =>
       /\ clauses = {}
       /\ xor_clauses = <<>>
       /\ sid = sid_init(num_vars, k)

\* C10 witness: encoding for k = 2 finished on a table whose first row is a
\* don't-care followed by three defined rows.
C10_Witness ==
  /\ pc = "preprocess"
  /\ k = 2
  /\ num_vars = 2
  /\ binary[0] = "-"
  /\ Len(xor_clauses) = 3
  /\ sid = 15

====
